---- MODULE Spec2Model ----
(***************************************************************************)
(* The explicit-free-list allocator (src/unnamed/part_000): boundary tags, *)
(* LIFO doubly-linked free list, immediate coalescing.                     *)
(*                                                                         *)
(* The heap is a word-addressed memory: every header, footer and free-list *)
(* link is an 8-byte word at an absolute byte address.  Pointers are       *)
(* absolute addresses, NULL is 0.  One action models one facade call,      *)
(* run to completion.                                                      *)
(***************************************************************************)
EXTENDS Integers, Naturals, Sequences, FiniteSets, TLC

\* ---------------------------------------------------------------- bounds
\* capacity of the region provider, in ALIGNMENT units after the init padding
MaxHeapUnits == 4
\* capacity of the roomy provider, in ALIGNMENT units after the init padding
RoomyUnits == 6
\* machine words are WordBits wide (a scaled-down size_t)
WordBits == 14

\* ------------------------------------------------------- program constants
\* sizeof(size_t), sizeof(block_t), sizeof(footer_t), sizeof(void *)
WORD == 8
\* const size_t ALIGNMENT = 2 * sizeof(size_t)
ALIGNMENT == 2 * WORD
\* offsetof(free_block_t, prev), offsetof(free_block_t, next)
PREV_OFF == 8
NEXT_OFF == 16
NULL == 0
\* (void *) -1 of mem_sbrk, as a word
SBRK_FAIL == 2 ^ WordBits - 1

WordMod == 2 ^ WordBits
\* address of the first byte of the region (ALIGNMENT-aligned)
Base == 256 * ALIGNMENT
MaxHeap == WORD + ALIGNMENT * MaxHeapUnits
\* a provider with room for three blocks of the minimum size
RoomyHeap == WORD + ALIGNMENT * RoomyUnits
NWords == RoomyHeap \div WORD
WordIdx == 0 .. (NWords - 1)

\* values an uninitialised word, or a read through a wild pointer, may yield
JunkVals == {0, 85}
\* outcome of an access outside the provider's memory: the access traps, or
\* the write is lost and the read yields junk
Oracle == {[trap |-> TRUE, junk |-> 0]} \cup [trap : {FALSE}, junk : JunkVals]
Trapping == {o \in Oracle : o.trap}

\* byte counts the caller asks for: one per block size 16, 32, 48
ReqSizes == {0, 8, 24}
\* element counts of mm_calloc, for 8-byte elements
CallocCounts == {0, 1, 2}

\* word arithmetic of size_t and of pointers
Add(a, b) == (a + b) % WordMod
Sub(a, b) == (a - b) % WordMod

VARIABLES
    mem,            \* the provider's memory, one value per 8-byte word
    mem_brk,        \* current end of the region
    mem_max_addr,   \* end of the provider's memory: the region cannot grow past it
    head,           \* static free_block_t *head
    mm_heap_first,  \* static block_t *mm_heap_first
    mm_heap_last,   \* static block_t *mm_heap_last
    status,         \* "boot", "ok", or how the process ended: "crashed", "hung"
    live,           \* payloads the caller holds: payload address -> requested bytes
    call,           \* the facade call that returned last
    reuse,          \* requested size of a malloc whose result was freed by the last call
    wild            \* a call has survived an access outside the provider's memory

vars == <<mem, mem_brk, mem_max_addr, head, mm_heap_first, mm_heap_last, status, live, call, reuse, wild>>

\* ------------------------------------------------------------ memory access
Mapped(s, a) == a >= Base /\ a < s.max /\ a % WORD = 0
Idx(a) == (a - Base) \div WORD

\* value of *a
Load(s, a, o) == IF Mapped(s, a) THEN s.mem[Idx(a)] ELSE o.junk
\* the read of *a itself: traps on a wild address
Touch(s, a, o) ==
    IF s.st # "ok" \/ Mapped(s, a) THEN s
    ELSE IF o.trap THEN [s EXCEPT !.st = "crashed"]
    ELSE [s EXCEPT !.w = 1]
\* *a = v
Store(s, a, v, o) ==
    IF s.st # "ok" THEN s
    ELSE IF Mapped(s, a) THEN [s EXCEPT !.mem[Idx(a)] = v]
    ELSE IF o.trap THEN [s EXCEPT !.st = "crashed"]
    ELSE [s EXCEPT !.w = 1]

\* grow-only region provider: returns the old end, or SBRK_FAIL
mem_sbrk(s, incr) ==
    IF s.brk + incr > s.max
    THEN [s EXCEPT !.ret = SBRK_FAIL]
    ELSE [s EXCEPT !.ret = s.brk, !.brk = s.brk + incr]

\* ------------------------------------------------------------------ helpers
round_up(size, n) == (Add(size, n - 1) \div n) * n % WordMod

\* size | is_allocated
BitOr1(size, a) == IF a = 1 /\ size % 2 = 0 THEN size + 1 ELSE size

\* the header word, then the footer word at block + size - sizeof(footer_t)
set_header(s, block, size, is_alloc, o) ==
    Store(Store(s, block, BitOr1(size, is_alloc), o),
          Sub(Add(block, size), WORD), size, o)

\* header & ~1
get_size(s, block, o) == (Load(s, block, o) \div 2) * 2
is_allocated(s, block, o) == Load(s, block, o) % 2 = 1

\* add_block that leaves the old head's prev link as it was
add_block_no_back_link(s, block, o) ==
    IF s.head = NULL
    THEN Store(Store([s EXCEPT !.head = block], Add(block, PREV_OFF), NULL, o),
               Add(block, NEXT_OFF), NULL, o)
    ELSE Store(Store([s EXCEPT !.head = block], Add(block, PREV_OFF), NULL, o),
               Add(block, NEXT_OFF), s.head, o)

add_block(s, block, o) ==
    IF s.head = NULL
    THEN Store(Store([s EXCEPT !.head = block], Add(block, PREV_OFF), NULL, o),
               Add(block, NEXT_OFF), NULL, o)
    ELSE Store(Store(Store([s EXCEPT !.head = block], Add(block, PREV_OFF), NULL, o),
                     Add(block, NEXT_OFF), s.head, o),
               Add(s.head, PREV_OFF), block, o)

\* if (nxt != NULL) nxt->prev = prev
remove_block_next(s, prev, nxt, o) ==
    IF nxt # NULL THEN Store(s, Add(nxt, PREV_OFF), prev, o) ELSE s

\* if (prev != NULL) prev->next = nxt; else head = nxt
remove_block_prev(s, prev, nxt, o) ==
    remove_block_next(IF prev # NULL
                      THEN Store(s, Add(prev, NEXT_OFF), nxt, o)
                      ELSE [s EXCEPT !.head = nxt],
                      prev, nxt, o)

remove_block(s, block, o) ==
    remove_block_prev(Touch(Touch(s, Add(block, PREV_OFF), o), Add(block, NEXT_OFF), o),
                      Load(s, Add(block, PREV_OFF), o),
                      Load(s, Add(block, NEXT_OFF), o), o)

\* first-fit walk of the free list; the walk of a cyclic list never ends
RECURSIVE find_walk(_, _, _, _, _)
RECURSIVE find_step(_, _, _, _, _)
\* the loop test curr != NULL, then the reads of curr's header and next link
find_walk(s, curr, size, fuel, o) ==
    IF curr = NULL THEN [s EXCEPT !.ret = NULL]
    ELSE IF fuel = 0 THEN [s EXCEPT !.st = "hung"]
    ELSE find_step(Touch(Touch(s, curr, o), Add(curr, NEXT_OFF), o), curr, size, fuel, o)

\* the loop body on curr, then curr = curr->next
find_step(s, curr, size, fuel, o) ==
    IF s.st # "ok" THEN s
    ELSE IF get_size(s, curr, o) >= size THEN [s EXCEPT !.ret = curr]
    ELSE find_walk(s, Load(s, Add(curr, NEXT_OFF), o), size, fuel - 1, o)

find_fit(s, size, o) == find_walk(s, s.head, size, (s.max - Base) \div WORD + 1, o)

block_from_payload(ptr) == Sub(ptr, WORD)

\* mm_init after its call of mem_sbrk returned in state g
mm_init_padding(g) ==
    IF g.ret = SBRK_FAIL
    THEN [g EXCEPT !.ret = 0]
    ELSE [g EXCEPT !.head = NULL, !.first = NULL, !.last = NULL, !.ret = 1]

mm_init(s) == mm_init_padding(mem_sbrk(s, ALIGNMENT - WORD))

\* if (was == mm_heap_last) mm_heap_last = now
move_last(s, was, now) == IF was = s.last THEN [s EXCEPT !.last = now] ELSE s

split_helper(s, block, split, size, split_size, o) ==
    add_block(set_header(set_header(move_last(s, block, split), block, size, 1, o),
                         split, split_size, 0, o),
              split, o)

\* the rounded block size mm_malloc computes for a request of n bytes
need(n) == round_up(Add(Add(WORD, n), WORD), ALIGNMENT)

\* mm_malloc_place splitting every found block larger than the need
mm_malloc_place_eager(s, block, size, bsz, o) ==
    [(IF bsz > size
      THEN split_helper(s, block, Add(block, size), size, Sub(bsz, size), o)
      ELSE set_header(s, block, bsz, 1, o))
        EXCEPT !.ret = Add(block, WORD)]

\* mm_malloc_place with the split threshold need + minimum block size, strictly
mm_malloc_place_strict(s, block, size, bsz, o) ==
    [(IF bsz > Add(Add(Add(WORD, size), WORD), ALIGNMENT)
      THEN split_helper(s, block, Add(block, size), size, Sub(bsz, size), o)
      ELSE set_header(s, block, bsz, 1, o))
        EXCEPT !.ret = Add(block, WORD)]

\* the free block found, of size bsz, is split or taken whole
mm_malloc_place(s, block, size, bsz, o) ==
    [(IF bsz > Add(Add(WORD, size), WORD)
      THEN split_helper(s, block, Add(block, size), size, Sub(bsz, size), o)
      ELSE set_header(s, block, bsz, 1, o))
        EXCEPT !.ret = Add(block, WORD)]

\* the read of the size of the block just unlinked
mm_malloc_take(s, block, size, o) ==
    mm_malloc_place(Touch(s, block, o), block, size, get_size(s, block, o), o)

\* mm_heap_first and mm_heap_last after the region grew by the block at nb
grown(g, nb) == [g EXCEPT !.first = IF g.first = NULL THEN nb ELSE g.first,
                          !.last = nb]

\* mm_malloc_grow with mm_heap_first and mm_heap_last updated before the
\* result of mem_sbrk is tested
mm_malloc_grow_late_test(g, size, o) ==
    IF g.ret = SBRK_FAIL
    THEN [grown(g, g.ret) EXCEPT !.ret = NULL]
    ELSE [set_header(grown(g, g.ret), g.ret, size, 1, o)
             EXCEPT !.ret = Add(g.ret, WORD)]

\* no block fits: mem_sbrk(size) returned in state g
mm_malloc_grow(g, size, o) ==
    IF g.ret = SBRK_FAIL
    THEN [g EXCEPT !.ret = NULL]
    ELSE [set_header(grown(g, g.ret), g.ret, size, 1, o)
             EXCEPT !.ret = Add(g.ret, WORD)]

\* mm_malloc after find_fit(size) returned in state f
mm_malloc_found(f, size, o) ==
    IF f.st # "ok" THEN f
    ELSE IF f.ret # NULL
    THEN mm_malloc_take(remove_block(f, f.ret, o), f.ret, size, o)
    ELSE mm_malloc_grow(mem_sbrk(f, size), size, o)

mm_malloc(s, n, o) == mm_malloc_found(find_fit(s, need(n), o), need(n), o)

\* the reads of a neighbour's header, made only for a non-null neighbour
touch_if(c, s, a, o) == IF c THEN Touch(s, a, o) ELSE s

\* coalesce_cases that leaves mm_heap_last alone when block merges into prev
coalesce_cases_stale_last(t, prev, block, next, pfree, nfree, psz, bsz, nsz, o) ==
    IF pfree /\ nfree
    THEN move_last(remove_block(remove_block(
                       set_header(t, prev, Add(Add(psz, bsz), nsz), 0, o),
                       next, o), block, o),
                   next, prev)
    ELSE IF pfree
    THEN remove_block(set_header(t, prev, Add(psz, bsz), 0, o), block, o)
    ELSE IF nfree
    THEN move_last(remove_block(set_header(t, block, Add(bsz, nsz), 0, o), next, o),
                   next, block)
    ELSE set_header(t, block, bsz, 0, o)

\* the four cases of coalesce_helper, on the sizes and flags it has read
coalesce_cases(t, prev, block, next, pfree, nfree, psz, bsz, nsz, o) ==
    IF pfree /\ nfree
    THEN move_last(remove_block(remove_block(
                       set_header(t, prev, Add(Add(psz, bsz), nsz), 0, o),
                       next, o), block, o),
                   next, prev)
    ELSE IF pfree
    THEN move_last(remove_block(set_header(t, prev, Add(psz, bsz), 0, o), block, o),
                   block, prev)
    ELSE IF nfree
    THEN move_last(remove_block(set_header(t, block, Add(bsz, nsz), 0, o), next, o),
                   next, block)
    ELSE set_header(t, block, bsz, 0, o)

coalesce_helper(s, prev, block, next, o) ==
    coalesce_cases(Touch(touch_if(next # NULL,
                                  touch_if(prev # NULL, s, prev, o), next, o),
                         block, o),
                   prev, block, next,
                   prev # NULL /\ ~is_allocated(s, prev, o),
                   next # NULL /\ ~is_allocated(s, next, o),
                   get_size(s, prev, o), get_size(s, block, o), get_size(s, next, o), o)

\* if (block != mm_heap_last) next = block + get_size(block); then coalesce
mm_free_next(s, prev, block, o) ==
    coalesce_helper(touch_if(block # s.last, s, block, o), prev, block,
                    IF block # s.last THEN Add(block, get_size(s, block, o)) ELSE NULL,
                    o)

\* if (block != mm_heap_first) prev = block - footer->size
mm_free_prev(s, block, o) ==
    mm_free_next(touch_if(block # s.first, s, Sub(block, WORD), o),
                 IF block # s.first
                 THEN Sub(block, Load(s, Sub(block, WORD), o)) ELSE NULL,
                 block, o)

mm_free(s, ptr, o) ==
    IF ptr = NULL THEN s
    ELSE mm_free_prev(add_block(s, block_from_payload(ptr), o),
                      block_from_payload(ptr), o)

\* memcpy(dst, src, n), word by word in ascending order
RECURSIVE memcpy(_, _, _, _, _)
memcpy(s, dst, src, n, o) ==
    IF n <= 0 THEN s
    ELSE memcpy(Store(Touch(s, src, o), dst, Load(s, src, o), o),
                Add(dst, WORD), Add(src, WORD), n - WORD, o)

\* memset(dst, 0, n)
RECURSIVE memset0(_, _, _, _)
memset0(s, dst, n, o) ==
    IF n <= 0 THEN s
    ELSE memset0(Store(s, dst, 0, o), Add(dst, WORD), n - WORD, o)

\* the copy of min(new_size, size) bytes, mm_free(old_ptr), return new_ptr
mm_realloc_copy(m, new_ptr, old_ptr, size, new_size, o) ==
    [mm_free(memcpy(m, new_ptr, old_ptr,
                    IF new_size > size THEN size ELSE new_size, o),
             old_ptr, o)
        EXCEPT !.ret = new_ptr]

\* mm_realloc after its call of mm_malloc(size) returned in state m
mm_realloc_rest(m, old_ptr, size, o) ==
    IF m.st # "ok" THEN m
    ELSE IF old_ptr = NULL THEN m
    ELSE IF size = 0 THEN [mm_free(m, old_ptr, o) EXCEPT !.ret = NULL]
    ELSE mm_realloc_copy(Touch(m, block_from_payload(old_ptr), o), m.ret, old_ptr,
                         size, get_size(m, block_from_payload(old_ptr), o), o)

mm_realloc(s, old_ptr, size, o) ==
    mm_realloc_rest(mm_malloc(s, size, o), old_ptr, size, o)

\* memset(block, 0, total_size) on the result of mm_malloc, return block
mm_calloc_clear(m, total_size, o) ==
    IF m.st # "ok" THEN m
    ELSE [memset0(m, m.ret, total_size, o) EXCEPT !.ret = m.ret]

mm_calloc(s, nmemb, size, o) ==
    mm_calloc_clear(mm_malloc(s, (nmemb * size) % WordMod, o),
                    (nmemb * size) % WordMod, o)

\* ------------------------------------------------------------- the machine
NoCall == [op |-> "none", p |-> NULL, n |-> 0, ret |-> NULL]
NoLive == [x \in {} |-> 0]

\* the allocator's state as the record the operations work on
Cur == [mem |-> mem, brk |-> mem_brk, max |-> mem_max_addr, head |-> head, first |-> mm_heap_first,
        last |-> mm_heap_last, st |-> "ok", ret |-> NULL, w |-> 0]

\* the outcomes an access outside the provider's memory may have in this call:
\* one call of a run may survive such accesses, in any later call they trap
Outcomes == IF wild THEN Trapping ELSE Oracle

Init ==
    /\ \E j \in JunkVals : mem = [w \in WordIdx |-> j]
    /\ mem_brk = Base
    /\ mem_max_addr = Base + MaxHeap
    /\ head = NULL
    /\ mm_heap_first = NULL
    /\ mm_heap_last = NULL
    /\ status = "boot"
    /\ live = NoLive
    /\ call = NoCall
    /\ reuse = -1
    /\ wild = FALSE

\* the call returned with result r (or the process died in it)
Commit(r, c, lv, ru) ==
    IF r.st = "ok"
    THEN /\ mem' = r.mem
         /\ mem_brk' = r.brk
         /\ mem_max_addr' = mem_max_addr
         /\ head' = r.head
         /\ mm_heap_first' = r.first
         /\ mm_heap_last' = r.last
         /\ status' = "ok"
         /\ live' = lv
         /\ call' = [c EXCEPT !.ret = r.ret]
         /\ reuse' = ru
         /\ wild' = (wild \/ r.w = 1)
    ELSE /\ mem' = [w \in DOMAIN mem |-> 0]
         /\ mem_brk' = Base
         /\ mem_max_addr' = mem_max_addr
         /\ head' = NULL
         /\ mm_heap_first' = NULL
         /\ mm_heap_last' = NULL
         /\ status' = r.st
         /\ live' = NoLive
         /\ call' = c
         /\ reuse' = -1
         /\ wild' = FALSE

Hold(lv, p, n) == [x \in DOMAIN lv \cup {p} |-> IF x = p THEN n ELSE lv[x]]
Drop(lv, p) == [x \in DOMAIN lv \ {p} |-> lv[x]]

\* the results of the calls, with the payloads the caller holds after them
InitDone(r) == Commit(r, [NoCall EXCEPT !.op = "init"], NoLive, -1)

MallocDone(r, n) ==
    Commit(r, [NoCall EXCEPT !.op = "malloc", !.n = n],
           IF r.ret # NULL THEN Hold(live, r.ret, n) ELSE live, -1)

FreeDone(r, p) ==
    Commit(r, [NoCall EXCEPT !.op = "free", !.p = p], Drop(live, p),
           IF p # NULL /\ call.op = "malloc" /\ call.ret = p THEN call.n ELSE -1)

ReallocDone(r, p, n) ==
    Commit(r, [NoCall EXCEPT !.op = "realloc", !.p = p, !.n = n],
           IF r.ret # NULL THEN Hold(Drop(live, p), r.ret, n) ELSE Drop(live, p), -1)

CallocDone(r, k) ==
    Commit(r, [NoCall EXCEPT !.op = "calloc", !.n = k * WORD],
           IF r.ret # NULL THEN Hold(live, r.ret, k * WORD) ELSE live, -1)

MmInit ==
    /\ status = "boot"
    /\ InitDone(mm_init(Cur))

MmMalloc ==
    /\ status = "ok"
    /\ \E n \in ReqSizes, o \in Outcomes : MallocDone(mm_malloc(Cur, n, o), n)

MmFree ==
    /\ status = "ok"
    /\ \E p \in DOMAIN live \cup {NULL}, o \in Outcomes :
         FreeDone(mm_free(Cur, p, o), p)

MmRealloc ==
    /\ status = "ok"
    /\ \E p \in DOMAIN live \cup {NULL}, n \in ReqSizes, o \in Outcomes :
         ReallocDone(mm_realloc(Cur, p, n, o), p, n)

MmCalloc ==
    /\ status = "ok"
    /\ \E k \in CallocCounts, o \in Outcomes :
         CallocDone(mm_calloc(Cur, k, WORD, o), k)

Next == MmInit \/ MmMalloc \/ MmFree \/ MmRealloc \/ MmCalloc

Spec == Init /\ [][Next]_vars

\* ------------------------------------- requests at the edge of the word range
\* SIZE_MAX: header + n + footer wraps around to 15
HugeSizes == {WordMod - 1}
\* element counts whose product with the 8-byte element size exceeds SIZE_MAX
HugeCounts == {WordMod \div WORD + 1}

MmMallocHuge ==
    /\ status = "ok"
    /\ \E n \in HugeSizes, o \in Outcomes : MallocDone(mm_malloc(Cur, n, o), n)

MmCallocHuge ==
    /\ status = "ok"
    /\ \E k \in HugeCounts, o \in Outcomes :
         CallocDone(mm_calloc(Cur, k, WORD, o), k)

\* a caller that allocates and frees only, with requests of every size
NextHuge == MmInit \/ MmMalloc \/ MmFree \/ MmMallocHuge \/ MmCallocHuge

SpecHuge == Init /\ [][NextHuge]_vars

\* --------------------------------------------- a provider with more room
InitRoomy ==
    /\ \E j \in JunkVals : mem = [w \in WordIdx |-> j]
    /\ mem_brk = Base
    /\ mem_max_addr = Base + RoomyHeap
    /\ head = NULL
    /\ mm_heap_first = NULL
    /\ mm_heap_last = NULL
    /\ status = "boot"
    /\ live = NoLive
    /\ call = NoCall
    /\ reuse = -1
    /\ wild = FALSE

\* byte counts n >= 1: one per block size 32, 48
PosSizes == {8, 24}

MmMallocPos ==
    /\ status = "ok"
    /\ \E n \in PosSizes, o \in Outcomes : MallocDone(mm_malloc(Cur, n, o), n)

\* a caller that allocates n >= 1 bytes and frees live payloads only
NextRoomy == MmInit \/ MmMallocPos \/ MmFree

SpecRoomy == InitRoomy /\ [][NextRoomy]_vars

\* ------------------------------------- the implicit-list allocator
\* (src/mm-implicit.c): header-only blocks, a heap walk from mm_heap_first to
\* mm_heap_last, coalescing delayed to the start of mm_malloc

im_set_header(s, block, size, is_alloc, o) ==
    Store(s, block, BitOr1(size, is_alloc), o)

\* the loop test mm_heap_last != NULL && curr <= mm_heap_last
im_in_walk(s, curr) == s.last # NULL /\ curr <= s.last

RECURSIVE im_coalesce(_, _, _, _)
RECURSIVE im_run(_, _, _, _, _, _)
\* after the inner while: set_header(header, cur_size, false), then the
\* increment curr = curr + get_size(curr) of the outer for
im_run_end(s, header, cur_size, curr, fuel, o) ==
    im_coalesce(Touch(im_set_header(s, header, cur_size, 0, o), curr, o),
                Add(curr, get_size(im_set_header(s, header, cur_size, 0, o), curr, o)),
                fuel - 1, o)

\* the inner while (!is_allocated(curr) && curr <= mm_heap_last), entered with
\* curr's header read
im_run_test(s, header, cur_size, curr, fuel, o) ==
    IF s.st # "ok" THEN s
    ELSE IF fuel = 0 THEN [s EXCEPT !.st = "hung"]
    ELSE IF ~is_allocated(s, curr, o) /\ curr <= s.last
    THEN im_run(s, header, Add(cur_size, get_size(s, curr, o)),
                Add(curr, get_size(s, curr, o)), fuel - 1, o)
    ELSE im_run_end(s, header, cur_size, curr, fuel, o)

im_run(s, header, cur_size, curr, fuel, o) ==
    im_run_test(Touch(s, curr, o), header, cur_size, curr, fuel, o)

\* the body of the outer for, entered with curr's header read
im_coalesce_body(s, curr, fuel, o) ==
    IF s.st # "ok" THEN s
    ELSE IF ~is_allocated(s, curr, o)
    THEN im_run(s, curr, get_size(s, curr, o), Add(curr, get_size(s, curr, o)),
                fuel - 1, o)
    ELSE im_coalesce(s, Add(curr, get_size(s, curr, o)), fuel - 1, o)

\* the delayed-coalescing pass of mm_malloc, from block curr
im_coalesce(s, curr, fuel, o) ==
    IF s.st # "ok" \/ ~im_in_walk(s, curr) THEN s
    ELSE IF fuel = 0 THEN [s EXCEPT !.st = "hung"]
    ELSE im_coalesce_body(Touch(s, curr, o), curr, fuel, o)

\* the split of find_fit: if (extra >= sizeof(block_t)) ...
im_split(s, curr, size, extra, o) ==
    IF extra >= WORD
    THEN move_last(im_set_header(im_set_header(s, curr, size, 1, o),
                                 Add(curr, size), extra, 0, o),
                   curr, Add(curr, size))
    ELSE s

RECURSIVE im_find_fit(_, _, _, _, _)
\* the body of find_fit's loop, entered with curr's header read
im_find_fit_body(s, curr, size, fuel, o) ==
    IF s.st # "ok" THEN s
    ELSE IF ~is_allocated(s, curr, o) /\ get_size(s, curr, o) >= size
    THEN [im_split(s, curr, size, Sub(get_size(s, curr, o), size), o)
             EXCEPT !.ret = curr]
    ELSE im_find_fit(s, Add(curr, get_size(s, curr, o)), size, fuel - 1, o)

im_find_fit(s, curr, size, fuel, o) ==
    IF s.st # "ok" THEN s
    ELSE IF ~im_in_walk(s, curr) THEN [s EXCEPT !.ret = NULL]
    ELSE IF fuel = 0 THEN [s EXCEPT !.st = "hung"]
    ELSE im_find_fit_body(Touch(s, curr, o), curr, size, fuel, o)

\* steps a walk of the heap can take before it must have left the memory
im_fuel(s) == 2 * ((s.max - Base) \div WORD) + 2

\* the rounded block size of the implicit allocator for a request of n bytes
im_need(n) == round_up(Add(WORD, n), ALIGNMENT)

\* no block fits: mem_sbrk(size) returned in state g
im_malloc_grow(g, size, o) ==
    IF g.ret = SBRK_FAIL
    THEN [g EXCEPT !.ret = NULL]
    ELSE [im_set_header(grown(g, g.ret), g.ret, size, 1, o)
             EXCEPT !.ret = Add(g.ret, WORD)]

\* mm_malloc after find_fit(size) returned in state f
im_malloc_found(f, size, o) ==
    IF f.st # "ok" THEN f
    ELSE IF f.ret # NULL
    THEN [im_set_header(Touch(f, f.ret, o), f.ret, get_size(f, f.ret, o), 1, o)
             EXCEPT !.ret = Add(f.ret, WORD)]
    ELSE im_malloc_grow(mem_sbrk(f, size), size, o)

\* mm_malloc after the coalescing pass left state c
im_malloc_fit(c, size, o) ==
    im_malloc_found(im_find_fit(c, c.first, size, im_fuel(c), o), size, o)

im_malloc(s, n, o) ==
    im_malloc_fit(im_coalesce(s, s.first, im_fuel(s), o), im_need(n), o)

im_free(s, ptr, o) ==
    IF ptr = NULL THEN s
    ELSE im_set_header(Touch(s, block_from_payload(ptr), o), block_from_payload(ptr),
                       get_size(s, block_from_payload(ptr), o), 0, o)

\* byte counts asked of the implicit allocator: block sizes 16 and 32
ImSizes == {8, 24}

ImInit ==
    /\ status = "boot"
    /\ InitDone(mm_init(Cur))

ImMalloc ==
    /\ status = "ok"
    /\ \E n \in ImSizes, o \in Outcomes : MallocDone(im_malloc(Cur, n, o), n)

ImFree ==
    /\ status = "ok"
    /\ \E p \in DOMAIN live \cup {NULL}, o \in Outcomes :
         FreeDone(im_free(Cur, p, o), p)

NextImplicit == ImInit \/ ImMalloc \/ ImFree

SpecImplicit == Init /\ [][NextImplicit]_vars

\* ------------------------------------------------- reading a heap state
\* outcome used to read a state: nothing outside the provider's memory is read
Quiet == [trap |-> FALSE, junk |-> 0]
Ok == status = "ok"
HeapStart == Base + ALIGNMENT - WORD

Size(b) == get_size(Cur, b, Quiet)
IsFree(b) == Mapped(Cur, b) /\ ~is_allocated(Cur, b, Quiet)

\* the physical blocks: from mm_heap_first, stepping by the header's size, up
\* to mm_heap_last; the walk stops at a header outside memory or of size 0
RECURSIVE PhysWalk(_, _)
PhysWalk(b, fuel) ==
    IF fuel = 0 \/ ~Mapped(Cur, b) \/ b > mm_heap_last THEN <<>>
    ELSE IF Size(b) = 0 THEN <<b>>
    ELSE <<b>> \o PhysWalk(Add(b, Size(b)), fuel - 1)

Blocks == IF mm_heap_first = NULL THEN <<>> ELSE PhysWalk(mm_heap_first, Cardinality(DOMAIN mem))
BlockSet == {Blocks[i] : i \in 1 .. Len(Blocks)}

\* the nodes reached from head along next, until NULL, a node outside memory
\* or a node seen before
RECURSIVE ListWalk(_, _)
ListWalk(b, seen) ==
    IF b = NULL \/ ~Mapped(Cur, b) \/ ~Mapped(Cur, Add(b, NEXT_OFF)) THEN seen
    ELSE IF \E i \in 1 .. Len(seen) : seen[i] = b THEN Append(seen, b)
    ELSE ListWalk(Load(Cur, Add(b, NEXT_OFF), Quiet), Append(seen, b))

FreeList == ListWalk(head, <<>>)

NoDup(q) == \A i, j \in 1 .. Len(q) : i # j => q[i] # q[j]
Returned == Ok /\ call.op \in {"malloc", "realloc", "calloc"} /\ call.ret # NULL
\* no free-list block is large enough for a request of n bytes
NoFit(n) == \A i \in 1 .. Len(FreeList) : Size(FreeList[i]) < need(n)
\* the provider refuses to grow the region by the block size of n bytes
Refuses(n) == mem_brk + need(n) > mem_max_addr
HeapUnchanged ==
    UNCHANGED <<mem, mem_brk, head, mm_heap_first, mm_heap_last>>
\* the allocator state of this step is the state s
StateIs(s) ==
    /\ mem' = s.mem
    /\ mem_brk' = s.brk
    /\ head' = s.head
    /\ mm_heap_first' = s.first
    /\ mm_heap_last' = s.last

\* ------------------------------------------------------------------ claims

\* C1: after every facade call returns, the list reached from head along
\* next holds every free block of the heap exactly once and no allocated block.
C1_FreeListExact ==
    Ok => /\ NoDup(FreeList)
          /\ {FreeList[i] : i \in 1 .. Len(FreeList)} = {b \in BlockSet : IsFree(b)}

\* C2: after every facade call returns, no two physically adjacent blocks
\* between mm_heap_first and mm_heap_last are both free.
C2_NoAdjacentFree ==
    Ok => \A i \in 1 .. Len(Blocks) - 1 :
            ~(IsFree(Blocks[i]) /\ IsFree(Blocks[i + 1]))

\* C3: after every facade call returns, stepping from mm_heap_first by the
\* header sizes ends exactly at mm_heap_last, and mm_heap_last plus its size
\* is the end of the region: the blocks partition the heap area.
C3_Partition ==
    Ok => IF mm_heap_first = NULL
          THEN mm_heap_last = NULL /\ mem_brk = HeapStart
          ELSE /\ mm_heap_first = HeapStart
               /\ Len(Blocks) > 0
               /\ Blocks[Len(Blocks)] = mm_heap_last
               /\ \A i \in 1 .. Len(Blocks) : Size(Blocks[i]) > 0
               /\ Add(mm_heap_last, Size(mm_heap_last)) = mem_brk

\* C4: every block that exists after a facade call returns has a size that is
\* a multiple of ALIGNMENT and at least the minimum block size 32; mm_malloc(0)
\* returns the payload of a 32-byte block.
\* header, two free-list links, footer
MIN_BLOCK == 4 * WORD
C4_MinBlockSize ==
    Ok => /\ \A b \in BlockSet : Size(b) % ALIGNMENT = 0 /\ Size(b) >= MIN_BLOCK
          /\ (call.op = "malloc" /\ call.n = 0 /\ call.ret # NULL)
                => Size(block_from_payload(call.ret)) = MIN_BLOCK

C6_ReallocFailKeepsOld ==
    [][(Ok /\ call'.op = "realloc" /\ call'.p # NULL /\ call'.n > 0
           /\ NoFit(call'.n) /\ Refuses(call'.n))
         => (status' = "ok" /\ call'.ret = NULL /\ HeapUnchanged
             /\ ~IsFree(block_from_payload(call'.p)))]_vars

\* C7: mm_realloc(p, 0) on a live payload p returns null and leaves exactly
\* the state mm_free(p) leaves: same heap words, head, mm_heap_first,
\* mm_heap_last and region size.
C7_ReallocZeroIsFree ==
    [][(Ok /\ call'.op = "realloc" /\ call'.p # NULL /\ call'.n = 0)
         => (status' = "ok" /\ call'.ret = NULL
             /\ StateIs(mm_free(Cur, call'.p, Quiet)))]_vars

\* C8: mm_calloc(k, s) returns a payload whose first k*s bytes are zero, or
\* null when the allocation fails, and then it has written no memory.
C8_CallocZeroOrNull ==
    [][(Ok /\ call'.op = "calloc")
         => /\ status' = "ok"
            /\ call'.ret # NULL =>
                 \A i \in 0 .. (call'.n \div WORD) - 1 :
                    /\ Mapped(Cur, Add(call'.ret, WORD * i))
                    /\ mem'[Idx(Add(call'.ret, WORD * i))] = 0
            /\ call'.ret = NULL => (HeapUnchanged /\ wild' = wild)]_vars

\* C9: mm_malloc(n) returns null only when no free-list block has the needed
\* size and the provider refuses the grow, and then head, mm_heap_first,
\* mm_heap_last, the region and every heap word are as before the call.
C9_MallocNullNoChange ==
    [][(Ok /\ status' = "ok" /\ call'.op = "malloc" /\ call'.ret = NULL)
         => (NoFit(call'.n) /\ Refuses(call'.n) /\ HeapUnchanged)]_vars

\* a malloc has returned null
C9_Witness == Ok /\ call.op = "malloc" /\ call.ret = NULL /\ mm_heap_first # NULL

\* C10: if p = mm_malloc(n) succeeds and mm_free(p) follows, the next
\* mm_malloc(n) returns non-null and leaves the region size unchanged.
C10_Reuse ==
    [][(Ok /\ reuse >= 0 /\ call'.op = "malloc" /\ call'.n = reuse)
         => (status' = "ok" /\ call'.ret # NULL /\ mem_brk' = mem_brk)]_vars

\* payload capacity of the block of payload p: size - header - footer
Capacity(p) == Size(block_from_payload(p)) - 2 * WORD

C12_MallocCapacity ==
    (Ok /\ call.op = "malloc" /\ call.ret # NULL)
        => /\ block_from_payload(call.ret) \in BlockSet
           /\ Capacity(call.ret) >= call.n

\* C13: when the product count * size of mm_calloc(count, size) is not
\* representable in a machine word, mm_calloc returns null and allocates
\* nothing.
C13_CallocOverflowNull ==
    [][(Ok /\ call'.op = "calloc" /\ call'.n >= WordMod)
         => (status' = "ok" /\ call'.ret = NULL /\ HeapUnchanged)]_vars

\* the word at address a after the step
WordAfter(a) == IF Mapped(Cur, a) THEN mem'[Idx(a)] ELSE -1
\* the block first-fit finds for a request of n bytes, NULL if none
Found(n) == find_fit(Cur, need(n), Quiet).ret
\* the size mm_malloc reads in the found block b once it is unlinked
FoundSize(b) == get_size(remove_block(Cur, b, Quiet), b, Quiet)
\* a mm_malloc(n) that returns, takes a block from the free list and makes no
\* access outside the provider's memory
MallocFromList ==
    /\ Ok /\ status' = "ok" /\ wild' = wild
    /\ call'.op = "malloc"
    /\ Found(call'.n) # NULL
\* the step split b: the low part allocated with size nd, the high part a free
\* block of the rest at the head of the list
SplitDone(b, nd, bsz) ==
    /\ WordAfter(b) = nd + 1
    /\ WordAfter(Add(b, nd)) = bsz - nd
    /\ head' = Add(b, nd)
\* the step allocated b whole
WholeDone(b, bsz) ==
    /\ WordAfter(b) = bsz + 1
    /\ WordAfter(Sub(Add(b, bsz), WORD)) = bsz

\* C14 (as stated): mm_malloc splits the found free block if and only if
\* block.size > need + 32, strictly; every other found block, also one of size
\* need + 32, is allocated whole.
C14_SplitIffStrict ==
    [][MallocFromList
         => IF FoundSize(Found(call'.n)) > need(call'.n) + MIN_BLOCK
            THEN SplitDone(Found(call'.n), need(call'.n), FoundSize(Found(call'.n)))
            ELSE WholeDone(Found(call'.n), FoundSize(Found(call'.n)))]_vars

\* C14 (amended): mm_malloc splits the found free block if and only if
\* block.size > need + header + footer (need + 16), which for sizes that are
\* multiples of ALIGNMENT is block.size >= need + 32: a found block of size
\* need + 32 is split, into need and a 32-byte free remainder.
C14_SplitIffAboveOverhead ==
    [][MallocFromList
         => IF FoundSize(Found(call'.n)) > need(call'.n) + 2 * WORD
            THEN SplitDone(Found(call'.n), need(call'.n), FoundSize(Found(call'.n)))
            ELSE WholeDone(Found(call'.n), FoundSize(Found(call'.n)))]_vars

\* a mm_malloc has split a block of size need + 32: the remainder is the
\* 32-byte free block at the head of the list, right after the returned block
C14_Witness ==
    /\ Ok /\ ~wild /\ call.op = "malloc" /\ call.n > 0 /\ call.ret # NULL
    /\ Size(block_from_payload(call.ret)) = need(call.n)
    /\ head = Add(block_from_payload(call.ret), need(call.n))
    /\ IsFree(head) /\ Size(head) = MIN_BLOCK

\* the step left block b with the allocated size nd, smaller than its size bsz
\* before: b was split
SplitSeen(b, nd, bsz) == bsz # nd /\ WordAfter(b) = nd + 1

\* the free block made at r by the step has size sz, a multiple of ALIGNMENT
\* that holds header, both links and footer
RemainderOk(r, sz) ==
    /\ WordAfter(r) = sz
    /\ sz % ALIGNMENT = 0
    /\ sz >= MIN_BLOCK

\* C15: whenever mm_malloc splits a found free block whose size is a multiple
\* of ALIGNMENT, the free remainder has size block.size - need, a multiple of
\* ALIGNMENT and at least the minimum block size 32.
C15_SplitRemainder ==
    [][(MallocFromList
          /\ FoundSize(Found(call'.n)) % ALIGNMENT = 0
          /\ SplitSeen(Found(call'.n), need(call'.n), FoundSize(Found(call'.n))))
         => RemainderOk(Add(Found(call'.n), need(call'.n)),
                        FoundSize(Found(call'.n)) - need(call'.n))]_vars

\* a mm_malloc has split a block: a free remainder of at least the minimum
\* size follows the returned block and heads the list
C15_Witness ==
    /\ Ok /\ ~wild /\ call.op = "malloc" /\ call.ret # NULL
    /\ Size(block_from_payload(call.ret)) = need(call.n)
    /\ head = Add(block_from_payload(call.ret), need(call.n))
    /\ IsFree(head) /\ Size(head) >= MIN_BLOCK /\ Size(head) % ALIGNMENT = 0
    /\ Add(head, Size(head)) <= mem_brk

Nodes(q) == {q[i] : i \in 1 .. Len(q)}
\* every block of bs has a footer that records the size of its header
TagsAgree(bs) ==
    \A b \in Nodes(bs) : Load(Cur, Sub(Add(b, Size(b)), WORD), Quiet) = Size(b)
BlockSizesOk(bs) ==
    \A b \in Nodes(bs) : Size(b) % ALIGNMENT = 0 /\ Size(b) >= MIN_BLOCK
\* the blocks bs partition the heap area
Partitioned(bs) ==
    IF mm_heap_first = NULL
    THEN mm_heap_last = NULL /\ mem_brk = HeapStart
    ELSE /\ mm_heap_first = HeapStart
         /\ Len(bs) > 0
         /\ bs[Len(bs)] = mm_heap_last
         /\ Add(mm_heap_last, Size(mm_heap_last)) = mem_brk
\* the heap invariants of the physical blocks bs and the free list fl: tags
\* agree, sizes, no adjacent free blocks, the list holds exactly the free
\* blocks, the blocks partition the heap area
HeapInvOf(bs, fl) ==
    /\ Ok
    /\ TagsAgree(bs) /\ BlockSizesOk(bs)
    /\ NoDup(fl) /\ Nodes(fl) = {b \in Nodes(bs) : IsFree(b)}
    /\ \A i \in 1 .. Len(bs) - 1 : ~(IsFree(bs[i]) /\ IsFree(bs[i + 1]))
    /\ Partitioned(bs)
HeapInv == HeapInvOf(Blocks, FreeList)

\* position of block b in the physical order bs, 0 if it is no block
Pos(bs, b) ==
    IF b \in Nodes(bs) THEN CHOOSE i \in 1 .. Len(bs) : bs[i] = b ELSE 0
\* the free physical neighbours of the block at position i, NULL if none or
\* allocated
FreePrev(bs, i) == IF i > 1 /\ IsFree(bs[i - 1]) THEN bs[i - 1] ELSE NULL
FreeNext(bs, i) ==
    IF i > 0 /\ i < Len(bs) /\ IsFree(bs[i + 1]) THEN bs[i + 1] ELSE NULL
SizeOrZero(b) == IF b = NULL THEN 0 ELSE Size(b)
\* the block that survives mm_free of b between neighbours prv and nxt, and
\* its size
Survivor(prv, b) == IF prv # NULL THEN prv ELSE b
Merged(prv, b, nxt) == SizeOrZero(prv) + Size(b) + SizeOrZero(nxt)

\* mm_free(p) on a live payload of the allocated block b, of size >= 32, in a
\* state satisfying the heap invariants
FreeOfBlock(bs, fl, b) ==
    /\ call'.op = "free" /\ call'.p # NULL
    /\ b \in Nodes(bs) /\ ~IsFree(b)
    /\ HeapInvOf(bs, fl)

\* the step left the free block surv of size total, took nxt off the list fl
\* and moved mm_heap_last from b or nxt to surv
Coalesced(fl, b, surv, total, nxt) ==
    /\ status' = "ok"
    /\ WordAfter(surv) = total
    /\ WordAfter(Sub(Add(surv, total), WORD)) = total
    /\ NoDup(FreeList')
    /\ Nodes(FreeList') = (Nodes(fl) \ {nxt}) \cup {surv}
    /\ mm_heap_last' = IF b = mm_heap_last \/ (nxt # NULL /\ nxt = mm_heap_last)
                       THEN surv ELSE mm_heap_last
    /\ mem_brk' = mem_brk /\ mm_heap_first' = mm_heap_first

\* mm_free of block b with free neighbours prv and nxt (NULL for none)
FreeMerges(bs, fl, b, prv, nxt) ==
    FreeOfBlock(bs, fl, b)
        => Coalesced(fl, b, Survivor(prv, b), Merged(prv, b, nxt), nxt)

\* mm_free of the block at position i of the physical order bs
FreeAt(bs, fl, b, i) == FreeMerges(bs, fl, b, FreePrev(bs, i), FreeNext(bs, i))

\* C16: in a state satisfying the heap invariants, mm_free(p) of block b leaves
\* one surviving free block, at the previous physical block's base if that
\* block is free and at b's base otherwise, whose header and footer record the
\* sum of the sizes of b and of its free neighbours; the absorbed neighbours
\* are off the free list, the survivor is on it exactly once, and mm_heap_last
\* is the survivor whenever b or the absorbed next block was mm_heap_last.
C16_FreeCoalesces ==
    [][call'.op = "free"
         => FreeAt(Blocks, FreeList, block_from_payload(call'.p),
                   Pos(Blocks, block_from_payload(call'.p)))]_vars

\* a mm_free has merged its block with both neighbours: the surviving free
\* block starts below the freed block and ends above it
C16_Witness ==
    /\ HeapInv /\ call.op = "free" /\ call.p # NULL
    /\ \E f \in Nodes(FreeList) :
         /\ f < block_from_payload(call.p)
         /\ Add(f, Size(f)) > Add(block_from_payload(call.p),
                                  Size(block_from_payload(call.p)))

\* b is an address of the heap area that holds a block base
InHeap(b) == b >= HeapStart /\ b < mem_brk /\ Mapped(Cur, Add(b, NEXT_OFF))
\* the walk from b along next reaches NULL within fuel steps, inside the heap
RECURSIVE ListEnds(_, _)
ListEnds(b, fuel) ==
    IF b = NULL THEN TRUE
    ELSE IF fuel = 0 \/ ~InHeap(b) THEN FALSE
    ELSE ListEnds(Load(Cur, Add(b, NEXT_OFF), Quiet), fuel - 1)
FreeBlocks == {b \in BlockSet : IsFree(b)}

\* C17: every mm_malloc, mm_free, mm_realloc and mm_calloc call of a sequence
\* of valid calls (any n >= 0) runs to completion: the walk from head along
\* next reaches the end of the list after at most as many steps as there are
\* free blocks; the list is never cyclic and never leads outside the heap.
C17_CallsComplete ==
    /\ status \notin {"crashed", "hung"}
    /\ Ok => ListEnds(head, Cardinality(FreeBlocks))

\* the step leaves the word at address a as it was
Kept(a) == WordAfter(a) = Load(Cur, a, Quiet)
\* the words of the n requested bytes of payload q
PayloadWords(q, n) == {Add(q, WORD * i) : i \in 0 .. ((n + WORD - 1) \div WORD) - 1}
\* header and footer of the block of payload q
TagWords(q) ==
    {block_from_payload(q),
     Sub(Add(block_from_payload(q), Size(block_from_payload(q))), WORD)}
\* the words of the provider's memory past the end of the region after the step
PastRegion == {a \in {Base + WORD * i : i \in DOMAIN mem} : a >= mem_brk' /\ a < mem_max_addr}

\* C18: no facade call writes to a word outside the region obtained from the
\* provider, to the header or footer of a block it is not allocating, freeing,
\* splitting or merging, or to the requested bytes of a payload the caller
\* holds that is neither the argument freed nor the result returned.
C18_PayloadIntegrity ==
    [][(Ok /\ status' = "ok")
         => /\ \A a \in PastRegion : Kept(a)
            /\ \A q \in DOMAIN live \ {call'.p, call'.ret} :
                  /\ \A a \in PayloadWords(q, live[q]) : Kept(a)
                  /\ \A a \in TagWords(q) : Kept(a)]_vars

\* the prev link of list node b
PrevOf(b) == Load(Cur, Add(b, PREV_OFF), Quiet)

\* C19: for one mm_init followed by mm_malloc(n), n >= 1, and mm_free of live
\* payloads, after each call the free list is a well-formed doubly-linked
\* list: head is null or head.prev is null, c.prev = b for every link
\* b.next = c, the last next is null, the list is acyclic, and every node is
\* the base of a free block of size >= 32 inside the heap.
C19_ListWellFormed ==
    Ok => /\ ListEnds(head, Cardinality(FreeBlocks))
          /\ NoDup(FreeList)
          /\ head # NULL => PrevOf(head) = NULL
          /\ \A i \in 1 .. Len(FreeList) - 1 : PrevOf(FreeList[i + 1]) = FreeList[i]
          /\ \A b \in Nodes(FreeList) :
                /\ b \in BlockSet /\ IsFree(b)
                /\ Size(b) >= MIN_BLOCK
                /\ Add(b, Size(b)) <= mem_brk

\* a mm_free has returned and the list links two free blocks
C19_Witness ==
    /\ Ok /\ call.op = "free" /\ call.p # NULL
    /\ Len(FreeList) >= 2
    /\ PrevOf(FreeList[2]) = head

\* the blocks of the implicit heap in physical order: from mm_heap_first by
\* the header sizes up to the end of the region
RECURSIVE ImWalk(_, _)
ImWalk(b, fuel) ==
    IF fuel = 0 \/ ~Mapped(Cur, b) \/ b >= mem_brk THEN <<>>
    ELSE IF Size(b) = 0 THEN <<b>>
    ELSE <<b>> \o ImWalk(Add(b, Size(b)), fuel - 1)
ImBlocks ==
    IF mm_heap_first = NULL THEN <<>> ELSE ImWalk(mm_heap_first, Cardinality(DOMAIN mem))
\* mm_heap_last is the base of the physically last block
ImLastIsLast ==
    IF mm_heap_first = NULL THEN mm_heap_last = NULL
    ELSE /\ mm_heap_last \in Nodes(ImBlocks)
         /\ Add(mm_heap_last, Size(mm_heap_last)) = mem_brk
\* some free block of the heap is large enough for a request of n bytes
ImFreeFits(n) == \E b \in Nodes(ImBlocks) : IsFree(b) /\ Size(b) >= im_need(n)

\* C20: in the implicit-list allocator, after every mm_malloc returns
\* mm_heap_last is the base of the physically last block of the heap, and
\* mm_malloc(n) grows the region only when no free block of size
\* >= round_up(8 + n, 16) exists anywhere in the heap.
C20_ImplicitLast ==
    [][(Ok /\ status' = "ok" /\ call'.op = "malloc")
         => /\ ImLastIsLast'
            /\ mem_brk' > mem_brk => ~ImFreeFits(call'.n)]_vars

====
